---- MODULE Spec2Model ----
(***************************************************************************)
(* A model of flake-checker: the flake.lock parser of parse-flake-lock     *)
(* (FlakeLock::new, FlakeLockVisitor::visit_map, chase_input_node), the    *)
(* fixed-rule evaluator of src/flake.rs (nixpkgs_deps, check_flake_lock),  *)
(* the expression evaluator of src/condition.rs (evaluate_condition) and   *)
(* the run of src/main.rs from the look for the lock file to the exit code.*)
(*                                                                         *)
(* A lock document is a table of named nodes and the name of its root.     *)
(* Parsing resolves every input of the Root node to a node of the table;   *)
(* check_flake_lock and evaluate_condition turn the resolved Repo inputs   *)
(* into a list of issues, which main reports and turns into an exit code.  *)
(***************************************************************************)
EXTENDS Integers, Sequences, FiniteSets, TLC

VARIABLES
    doc,         \* the lock document: its node table, `root` and `version`
    cli,         \* the Cli / FlakeCheckConfig the run was given
    env,         \* the environment variables the report reads
    lock_exists, \* whether a file exists at flake_lock_path
    pc,          \* where the run stands: "start", "parsed", "failed", "crashed"
    flake_lock,  \* what FlakeLock::new gave: a FlakeLock, an error, a crash
    calls,       \* the calls of check_flake_lock so far: time and result
    evals,       \* the calls of evaluate_condition so far: time and result
    report,      \* what the generation of the summary gave, if it was run
    exit_code,   \* the ExitCode of the process, "running" before it ends
    unit         \* a function applied on its own: its arguments and result

vars == <<doc, cli, env, lock_exists, pc, flake_lock, calls, evals, report,
          exit_code, unit>>

----------------------------------------------------------------------------
(* Bounds of the model.                                                    *)

\* Recursive calls of chase_input_node the call stack has room for.
MaxDepth == 3

\* Calls of check_flake_lock, or of evaluate_condition, made on one parsed
\* document.
MaxCalls == 2

----------------------------------------------------------------------------
(* Program constants.                                                      *)

MAX_DAYS == 30

SECONDS_PER_DAY == 86400

ALLOWED_REFS ==
    { "nixos-22.11", "nixos-22.11-small", "nixos-23.05", "nixos-23.05-small",
      "nixos-unstable", "nixos-unstable-small", "nixpkgs-22.11-darwin",
      "nixpkgs-23.05-darwin", "nixpkgs-unstable" }

----------------------------------------------------------------------------
(* Values.                                                                 *)

\* Option<T>
None == [some |-> FALSE]

Some(v) == [some |-> TRUE, value |-> v]

\* enum Input
InputString(s) == [tag |-> "String", s |-> s]

InputList(keys) == [tag |-> "List", keys |-> keys]

\* The `inputs` member of a node object as it stands in the JSON document:
\* absent, null, an object of name -> Input, or a value of another shape.
JAbsent == [json |-> "absent"]

JNull == [json |-> "null"]

JMalformed == [json |-> "malformed"]

JMap(m) == [json |-> "map", map |-> m]

\* serde_json::from_value::<Option<HashMap<String, Input>>>, and the
\* Option<HashMap<String, Input>> field the derive fills for a typed node.
from_value(j) ==
    CASE j.json = "map" -> [ok |-> TRUE, value |-> Some(j.map)]
      [] j.json = "null" -> [ok |-> TRUE, value |-> None]
      [] j.json = "absent" -> [ok |-> TRUE, value |-> None]
      [] OTHER -> [ok |-> FALSE, value |-> None]

\* The empty HashMap.
EmptyMap == [k \in {} |-> None]

\* Results: a value, an error value, a panic, or the abort of a call stack
\* that has run out.
Ok(v) == [kind |-> "Ok", value |-> v]

Err(e) == [kind |-> "Err", error |-> e]

\* A panic names the expression that panicked.
Panic(site, msg, key) ==
    [kind |-> "Panic", site |-> site, message |-> msg, key |-> key]

StackOverflow == [kind |-> "StackOverflow"]

\* Every order a HashMap with key set S may be iterated in.
Orders(S) ==
    { o \in [1 .. Cardinality(S) -> S] : \A k \in S : \E i \in DOMAIN o : o[i] = k }

----------------------------------------------------------------------------
(* parse-flake-lock: Node::variant and chase_input_node.                   *)

\* variant with the three variants of an enum without Indirect, Path and
\* Tarball: their nodes are reported as the catch-all.
variant_ThreeVariants(node) ==
    CASE node.variant = "Root" -> "Root"
      [] node.variant = "Repo" -> "Repo"
      [] OTHER -> "Fallthrough"

variant(node) ==
    CASE node.variant = "Root" -> "Root"
      [] node.variant = "Repo" -> "Repo"
      [] node.variant = "Indirect" -> "Indirect"
      [] node.variant = "Path" -> "Path"
      [] node.variant = "Tarball" -> "Tarball"
      [] OTHER -> "Fallthrough"

\* maybe_node_inputs with an empty mapping where a node has none.
maybe_node_inputs_NoneAsEmpty(node) ==
    CASE node.variant # "Fallthrough" /\ from_value(node.inputs).value.some ->
           [ok |-> TRUE, value |-> from_value(node.inputs).value]
      [] node.variant = "Fallthrough" /\ node.inputs.json = "malformed" ->
           from_value(node.inputs)
      [] node.variant = "Fallthrough" /\ from_value(node.inputs).value.some ->
           from_value(node.inputs)
      [] OTHER -> [ok |-> TRUE, value |-> Some(EmptyMap)]

\* The `match node` of chase_input_node: the inputs the next hop is looked
\* up in.
maybe_node_inputs(node) ==
    CASE node.variant = "Root" -> [ok |-> TRUE, value |-> None]
      [] node.variant \in {"Repo", "Indirect", "Path", "Tarball"} ->
           [ok |-> TRUE, value |-> from_value(node.inputs).value]
      [] OTHER ->
           IF node.inputs.json = "absent"
             THEN [ok |-> TRUE, value |-> None]
             ELSE from_value(node.inputs)

RECURSIVE chase_input_node(_, _, _)
RECURSIVE chase_loop(_, _, _, _)

\* chase_loop with a hop through a name that leaves `node` where it was.
chase_loop_KeepsNode(nodes, node, rest, depth) ==
    IF rest = <<>> THEN Ok(node)
    ELSE
      LET mni == maybe_node_inputs(node) IN
      IF ~mni.ok THEN Err([type |-> "Json", node |-> node])
      ELSE IF ~mni.value.some
        THEN Err([type |-> "Invalid",
                  message |-> "lock node should have had some inputs but had none",
                  node |-> node])
      ELSE
        LET node_inputs == mni.value.value
            input == Head(rest)
        IN
        IF input \notin DOMAIN node_inputs
          THEN Panic("node_inputs[&input]", "no entry found for key", input)
        ELSE
          LET next_inputs == node_inputs[input] IN
          IF next_inputs.tag = "String"
            THEN IF next_inputs.s \notin DOMAIN nodes
                   THEN Panic("nodes[s]", "no entry found for key", next_inputs.s)
                   ELSE chase_loop(nodes, node, Tail(rest), depth)
            ELSE
              LET r == chase_input_node(nodes, next_inputs.keys, depth + 1) IN
              IF r.kind = "Ok"
                THEN chase_loop(nodes, r.value, Tail(rest), depth)
                ELSE r

\* The `for input in inputs` loop of chase_input_node, at `node`, with the
\* hops `rest` still to take, `depth` calls deep.
chase_loop(nodes, node, rest, depth) ==
    IF rest = <<>> THEN Ok(node)
    ELSE
      LET mni == maybe_node_inputs(node) IN
      IF ~mni.ok THEN Err([type |-> "Json", node |-> node])
      ELSE IF ~mni.value.some
        THEN Err([type |-> "Invalid",
                  message |-> "lock node should have had some inputs but had none",
                  node |-> node])
      ELSE
        LET node_inputs == mni.value.value
            input == Head(rest)
        IN
        IF input \notin DOMAIN node_inputs
          THEN Panic("node_inputs[&input]", "no entry found for key", input)
        ELSE
          LET next_inputs == node_inputs[input] IN
          IF next_inputs.tag = "String"
            THEN IF next_inputs.s \notin DOMAIN nodes
                   THEN Panic("nodes[s]", "no entry found for key", next_inputs.s)
                   ELSE chase_loop(nodes, nodes[next_inputs.s], Tail(rest), depth)
            ELSE
              LET r == chase_input_node(nodes, next_inputs.keys, depth + 1) IN
              IF r.kind = "Ok"
                THEN chase_loop(nodes, r.value, Tail(rest), depth)
                ELSE r

chase_input_node(nodes, inputs, depth) ==
    IF depth > MaxDepth THEN StackOverflow
    ELSE IF inputs = <<>>
      THEN Panic("unreachable!", "there should always be at least one input", "")
    ELSE
      LET next_input == Head(inputs) IN
      IF next_input \notin DOMAIN nodes
        THEN Panic("nodes[&next_input]", "no entry found for key", next_input)
        ELSE chase_loop(nodes, nodes[next_input], Tail(inputs), depth)

----------------------------------------------------------------------------
(* parse-flake-lock: FlakeLockVisitor::visit_map and FlakeLock::new.       *)

\* root_chain with the name of an Input::String left out of the chain.
root_chain_DropsName(root_input) ==
    IF root_input.tag = "String" THEN <<>> ELSE root_input.keys

\* `match root_input.clone()`: the chain chase_input_node is called with.
root_chain(root_input) ==
    IF root_input.tag = "String" THEN <<root_input.s>> ELSE root_input.keys

RECURSIVE project_roots(_, _, _, _)

\* project_roots with each node inserted under the first name of its chain
\* instead of the name of the input.
project_roots_KeyedByNode(nodes, root_inputs, order, root_nodes) ==
    IF order = <<>> THEN Ok(root_nodes)
    ELSE
      LET root_name == Head(order)
          chain == root_chain(root_inputs[root_name])
          r == chase_input_node(nodes, chain, 0)
      IN
      CASE r.kind = "Ok" ->
             project_roots(nodes, root_inputs, Tail(order),
                           (Head(chain) :> r.value) @@ root_nodes)
        [] r.kind = "Err" ->
             Err([type |-> "Custom", message |-> "failed to chase input",
                  root_name |-> root_name, cause |-> r.error])
        [] OTHER -> r

\* The `for (root_name, root_input) in root_node.inputs.iter()` loop, the
\* HashMap giving its entries in `order`; root_nodes holds the entries
\* inserted so far.
project_roots(nodes, root_inputs, order, root_nodes) ==
    IF order = <<>> THEN Ok(root_nodes)
    ELSE
      LET root_name == Head(order)
          r == chase_input_node(nodes, root_chain(root_inputs[root_name]), 0)
      IN
      CASE r.kind = "Ok" ->
             project_roots(nodes, root_inputs, Tail(order),
                           (root_name :> r.value) @@ root_nodes)
        [] r.kind = "Err" ->
             Err([type |-> "Custom", message |-> "failed to chase input",
                  root_name |-> root_name, cause |-> r.error])
        [] OTHER -> r

\* The names visit_map iterates over: the inputs of the node `root` names.
root_input_names(d) ==
    IF d.root \in DOMAIN d.nodes /\ d.nodes[d.root].variant = "Root"
      THEN DOMAIN d.nodes[d.root].inputs.map
      ELSE {}

visit_map(d, order) ==
    IF d.root \notin DOMAIN d.nodes
      THEN Panic("nodes[&root]", "no entry found for key", d.root)
    ELSE
      LET root_node == d.nodes[d.root] IN
      IF root_node.variant # "Root"
        THEN Err([type |-> "Custom",
                  message |-> "root node was not a Root node, but was a node",
                  variant |-> variant(root_node)])
        ELSE
          LET r == project_roots(d.nodes, root_node.inputs.map, order, EmptyMap) IN
          IF r.kind = "Ok"
            THEN Ok([nodes |-> d.nodes, root |-> r.value, version |-> d.version])
            ELSE r

\* FlakeLock::new: the error of the deserializer becomes
\* FlakeLockParseError::Json.
FlakeLock_new(d, order) ==
    LET r == visit_map(d, order) IN
    IF r.kind = "Err" THEN Err([type |-> "Json", source |-> r.error]) ELSE r

----------------------------------------------------------------------------
(* parse-flake-lock: the untagged deserialization of a node of the table.  *)

\* A node object of the document, before it is given a variant: the keys it
\* has besides `inputs`, `locked` and `original`, the value of `inputs`, and
\* the keys of its `locked` and `original` objects if it has them. A key is
\* spelled as flake.lock spells it (lastModified, narHash, type, ref), and
\* the value of a key is of the type the field of that name is read as.
JsonNode(extra, inputs, locked, original) ==
    [extra |-> extra, inputs |-> inputs, locked |-> locked,
     original |-> original]

\* The keys of a node object.
keys_of(j) ==
    j.extra
    \cup (IF j.inputs.json # "absent" THEN {"inputs"} ELSE {})
    \cup (IF j.locked.some THEN {"locked"} ELSE {})
    \cup (IF j.original.some THEN {"original"} ELSE {})

\* The derived Deserialize of a struct that does not deny unknown fields:
\* the object is there and has every field that is no Option; a key that is
\* no field is passed over.
has_fields(obj, required) == obj.some /\ required \subseteq obj.value

RepoLocked_ok(obj) ==
    has_fields(obj, {"lastModified", "narHash", "owner", "repo", "rev", "type"})

RepoOriginal_ok(obj) == has_fields(obj, {"owner", "repo", "type"})

IndirectOriginal_ok(obj) == has_fields(obj, {"id", "type"})

PathLocked_ok(obj) ==
    has_fields(obj, {"lastModified", "narHash", "path", "type"})

PathOriginal_ok(obj) == has_fields(obj, {"path", "type"})

TarballLocked_ok(obj) == has_fields(obj, {"narHash", "type", "url"})

TarballOriginal_ok(obj) == has_fields(obj, {"url", "type"})

\* RootNode, deny_unknown_fields: `inputs`, a map, and no other key.
RootNode_ok(j) ==
    /\ keys_of(j) \subseteq {"inputs"}
    /\ j.inputs.json = "map"

\* RepoNode, deny_unknown_fields.
RepoNode_ok(j) ==
    /\ keys_of(j) \subseteq {"flake", "inputs", "locked", "original"}
    /\ from_value(j.inputs).ok
    /\ RepoLocked_ok(j.locked)
    /\ RepoOriginal_ok(j.original)

\* IndirectNode, deny_unknown_fields.
IndirectNode_ok(j) ==
    /\ keys_of(j) \subseteq {"locked", "inputs", "original"}
    /\ from_value(j.inputs).ok
    /\ RepoLocked_ok(j.locked)
    /\ IndirectOriginal_ok(j.original)

\* PathNode, deny_unknown_fields.
PathNode_ok(j) ==
    /\ keys_of(j) \subseteq {"locked", "inputs", "original"}
    /\ from_value(j.inputs).ok
    /\ PathLocked_ok(j.locked)
    /\ PathOriginal_ok(j.original)

\* TarballNode: a key that is no field is passed over.
TarballNode_ok(j) ==
    /\ from_value(j.inputs).ok
    /\ TarballLocked_ok(j.locked)
    /\ TarballOriginal_ok(j.original)

\* The node a node object is deserialized to, of the variant v.
Deserialized(v, j) == Ok([variant |-> v, inputs |-> j.inputs])

\* The deserialization of Node with Tarball tried before Path and Indirect
\* before Repo.
deserialize_node_OtherOrder(j) ==
    IF RootNode_ok(j) THEN Deserialized("Root", j)
    ELSE IF IndirectNode_ok(j) THEN Deserialized("Indirect", j)
    ELSE IF RepoNode_ok(j) THEN Deserialized("Repo", j)
    ELSE IF TarballNode_ok(j) THEN Deserialized("Tarball", j)
    ELSE IF PathNode_ok(j) THEN Deserialized("Path", j)
    ELSE Deserialized("Fallthrough", j)

\* The derived Deserialize of the untagged enum Node: the variants are tried
\* in the order of their declaration and the first that deserializes is
\* the node; Fallthrough holds a serde_json Value, which every object is.
deserialize_node(j) ==
    IF RootNode_ok(j) THEN Deserialized("Root", j)
    ELSE IF RepoNode_ok(j) THEN Deserialized("Repo", j)
    ELSE IF IndirectNode_ok(j) THEN Deserialized("Indirect", j)
    ELSE IF PathNode_ok(j) THEN Deserialized("Path", j)
    ELSE IF TarballNode_ok(j) THEN Deserialized("Tarball", j)
    ELSE Deserialized("Fallthrough", j)

----------------------------------------------------------------------------
(* src/flake.rs: nixpkgs_deps and check_flake_lock.                        *)

\* The elements of a Vec.
Elems(seq) == { seq[i] : i \in DOMAIN seq }

RECURSIVE join(_, _)

\* [String]::join: the strings of seq with sep between two neighbours.
join(seq, sep) ==
    IF seq = <<>> THEN ""
    ELSE IF Len(seq) = 1 THEN seq[1]
    ELSE seq[1] \o sep \o join(Tail(seq), sep)

\* nixpkgs_deps with an error that names the first missing key only.
nixpkgs_deps_FirstMissingOnly(root, keys) ==
    LET deps == { key \in DOMAIN root :
                    root[key].variant = "Repo" /\ key \in Elems(keys) }
        is_missing(k) == k \notin deps
        missing == SubSeq(SelectSeq(keys, is_missing), 1, 1)
        word == IF Len(missing) > 1 THEN "keys" ELSE "key"
    IN
    IF missing # <<>>
      THEN Err([type |-> "Invalid",
                message |-> "no nixpkgs dependency found for specified",
                word |-> word,
                missing |-> missing,
                text |-> "no nixpkgs dependency found for specified "
                           \o word \o ": " \o join(missing, ", ")])
      ELSE Ok([key \in deps |-> root[key]])

\* nixpkgs_deps with a target key that names a node of `root` of another
\* variant than Repo left out of the selection and not counted as missing.
nixpkgs_deps_SkipsOtherVariants(root, keys) ==
    LET deps == { key \in DOMAIN root :
                    root[key].variant = "Repo" /\ key \in Elems(keys) }
        is_missing(k) == k \notin DOMAIN root
        missing == SelectSeq(keys, is_missing)
        word == IF Len(missing) > 1 THEN "keys" ELSE "key"
    IN
    IF missing # <<>>
      THEN Err([type |-> "Invalid",
                message |-> "no nixpkgs dependency found for specified",
                word |-> word,
                missing |-> missing,
                text |-> "no nixpkgs dependency found for specified "
                           \o word \o ": " \o join(missing, ", ")])
      ELSE Ok([key \in deps |-> root[key]])

\* FlakeLock::nixpkgs_deps: the Repo entries of `root` whose name is one of
\* `keys`, or the error that lists the keys with no such entry. `text` is
\* the message of the error as format! builds it; `word` and `missing` are
\* the two values it is built from.
nixpkgs_deps(root, keys) ==
    LET deps == { key \in DOMAIN root :
                    root[key].variant = "Repo" /\ key \in Elems(keys) }
        is_missing(k) == k \notin deps
        missing == SelectSeq(keys, is_missing)
        word == IF Len(missing) > 1 THEN "keys" ELSE "key"
    IN
    IF missing # <<>>
      THEN Err([type |-> "Invalid",
                message |-> "no nixpkgs dependency found for specified",
                word |-> word,
                missing |-> missing,
                text |-> "no nixpkgs dependency found for specified "
                           \o word \o ": " \o join(missing, ", ")])
      ELSE Ok([key \in deps |-> root[key]])

\* to_lowercase that leaves the string as it is.
to_lowercase_Identity(s) == s

\* str::to_lowercase, on the owners of the model.
to_lowercase(s) ==
    CASE s = "NixOS" -> "nixos"
      [] s = "NIXOS" -> "nixos"
      [] OTHER -> s

\* num_days with a started day counted as a whole one.
num_days_RoundsUp(diff) ==
    IF diff >= 0
      THEN (diff + SECONDS_PER_DAY - 1) \div SECONDS_PER_DAY
      ELSE -((-diff) \div SECONDS_PER_DAY)

\* Duration::seconds(diff).num_days(): the whole days of diff, truncated
\* toward zero.
num_days(diff) ==
    IF diff >= 0
      THEN diff \div SECONDS_PER_DAY
      ELSE -((-diff) \div SECONDS_PER_DAY)

Issue(input, kind, reference, num_days_old, owner) ==
    [input |-> input, kind |-> kind, reference |-> reference,
     num_days_old |-> num_days_old, owner |-> owner]

\* dep_issues with the owner rule applied whether or not check_owner is set.
dep_issues_OwnerUngated(name, repo, config, now) ==
    LET num_days_old == num_days(now - repo.last_modified) IN
    (IF config.check_supported /\ repo.git_ref.some
        /\ repo.git_ref.value \notin ALLOWED_REFS
       THEN <<Issue(name, "Disallowed", repo.git_ref.value, 0, "")>>
       ELSE <<>>)
    \o (IF config.check_outdated /\ num_days_old > MAX_DAYS
          THEN <<Issue(name, "Outdated", "", num_days_old, "")>>
          ELSE <<>>)
    \o (IF to_lowercase(repo.owner) # "nixos"
          THEN <<Issue(name, "NonUpstream", "", 0, repo.owner)>>
          ELSE <<>>)

\* dep_issues with the rules tried in turn until one gives an issue.
dep_issues_ShortCircuits(name, repo, config, now) ==
    LET num_days_old == num_days(now - repo.last_modified) IN
    IF config.check_supported /\ repo.git_ref.some
       /\ repo.git_ref.value \notin ALLOWED_REFS
      THEN <<Issue(name, "Disallowed", repo.git_ref.value, 0, "")>>
    ELSE IF config.check_outdated /\ num_days_old > MAX_DAYS
      THEN <<Issue(name, "Outdated", "", num_days_old, "")>>
    ELSE IF config.check_owner /\ to_lowercase(repo.owner) # "nixos"
      THEN <<Issue(name, "NonUpstream", "", 0, repo.owner)>>
    ELSE <<>>

\* dep_issues with an input of MAX_DAYS days counted as outdated.
dep_issues_AtLeastMaxDays(name, repo, config, now) ==
    LET num_days_old == num_days(now - repo.last_modified) IN
    (IF config.check_supported /\ repo.git_ref.some
        /\ repo.git_ref.value \notin ALLOWED_REFS
       THEN <<Issue(name, "Disallowed", repo.git_ref.value, 0, "")>>
       ELSE <<>>)
    \o (IF config.check_outdated /\ num_days_old >= MAX_DAYS
          THEN <<Issue(name, "Outdated", "", num_days_old, "")>>
          ELSE <<>>)
    \o (IF config.check_owner /\ to_lowercase(repo.owner) # "nixos"
          THEN <<Issue(name, "NonUpstream", "", 0, repo.owner)>>
          ELSE <<>>)

\* dep_issues with an input that has no git ref counted as one with a ref
\* that is not allowed.
dep_issues_DisallowsMissingRef(name, repo, config, now) ==
    LET num_days_old == num_days(now - repo.last_modified)
        git_ref == IF repo.git_ref.some THEN repo.git_ref.value ELSE ""
    IN
    (IF config.check_supported /\ git_ref \notin ALLOWED_REFS
       THEN <<Issue(name, "Disallowed", git_ref, 0, "")>>
       ELSE <<>>)
    \o (IF config.check_outdated /\ num_days_old > MAX_DAYS
          THEN <<Issue(name, "Outdated", "", num_days_old, "")>>
          ELSE <<>>)
    \o (IF config.check_owner /\ to_lowercase(repo.owner) # "nixos"
          THEN <<Issue(name, "NonUpstream", "", 0, repo.owner)>>
          ELSE <<>>)

\* The body of the `for (name, dep) in deps` loop of check_flake_lock: the
\* issues pushed for one dependency.
dep_issues(name, repo, config, now) ==
    LET num_days_old == num_days(now - repo.last_modified) IN
    (IF config.check_supported /\ repo.git_ref.some
        /\ repo.git_ref.value \notin ALLOWED_REFS
       THEN <<Issue(name, "Disallowed", repo.git_ref.value, 0, "")>>
       ELSE <<>>)
    \o (IF config.check_outdated /\ num_days_old > MAX_DAYS
          THEN <<Issue(name, "Outdated", "", num_days_old, "")>>
          ELSE <<>>)
    \o (IF config.check_owner /\ to_lowercase(repo.owner) # "nixos"
          THEN <<Issue(name, "NonUpstream", "", 0, repo.owner)>>
          ELSE <<>>)

RECURSIVE issues_of(_, _, _, _)

\* The loop of check_flake_lock over deps, the HashMap giving its entries
\* in `order`.
issues_of(deps, order, config, now) ==
    IF order = <<>> THEN <<>>
    ELSE dep_issues(Head(order), deps[Head(order)], config, now)
           \o issues_of(deps, Tail(order), config, now)

\* The names check_flake_lock iterates over.
dep_names(root, keys) ==
    LET deps == nixpkgs_deps(root, keys) IN
    IF deps.kind = "Ok" THEN DOMAIN deps.value ELSE {}

check_flake_lock(lock, config, now, order) ==
    LET deps == nixpkgs_deps(lock.root, config.nixpkgs_keys) IN
    IF deps.kind # "Ok" THEN deps
    ELSE Ok(issues_of(deps.value, order, config, now))

----------------------------------------------------------------------------
(* src/condition.rs: evaluate_condition, and the CEL values, programs and  *)
(* contexts of cel_interpreter it works with.                              *)

\* cel_interpreter::Value, of the types the expressions of the model give.
CelBool(b) == [type |-> "bool", b |-> b, n |-> 0, s |-> "", l |-> <<>>]

CelInt(n) == [type |-> "int", b |-> FALSE, n |-> n, s |-> "", l |-> <<>>]

CelString(s) == [type |-> "string", b |-> FALSE, n |-> 0, s |-> s, l |-> <<>>]

CelList(l) == [type |-> "list", b |-> FALSE, n |-> 0, s |-> "", l |-> l]

\* Syntax trees of CEL expressions.
Lit(v) == [op |-> "lit", value |-> v]

Var(name) == [op |-> "var", name |-> name]

Eq(left, right) == [op |-> "eq", left |-> left, right |-> right]

Lt(left, right) == [op |-> "lt", left |-> left, right |-> right]

Ternary(cond, left, right) ==
    [op |-> "ternary", cond |-> cond, left |-> left, right |-> right]

Contains(target, arg) == [op |-> "contains", target |-> target, arg |-> arg]

\* The expressions the model is run with: three that give a boolean for
\* every dependency, one that gives an integer, one that gives a string and
\* one that fails for a dependency 30 days old or more, and one that does
\* not parse.
Conditions ==
    { "owner == 'NixOS'",
      "supportedRefs.contains(gitRef)",
      "numDaysOld < 30",
      "numDaysOld",
      "numDaysOld < 30 ? owner == 'NixOS' : gitRef",
      "numDaysOld < 30 ? owner == 'NixOS' : missing",
      "owner ==" }

\* Program::compile, on the expressions of the model: the syntax tree of an
\* expression that parses, the ParseError of one that does not.
compile(condition) ==
    CASE condition = "owner == 'NixOS'" ->
           Ok(Eq(Var("owner"), Lit(CelString("NixOS"))))
      [] condition = "supportedRefs.contains(gitRef)" ->
           Ok(Contains(Var("supportedRefs"), Var("gitRef")))
      [] condition = "numDaysOld < 30" ->
           Ok(Lt(Var("numDaysOld"), Lit(CelInt(30))))
      [] condition = "numDaysOld" ->
           Ok(Var("numDaysOld"))
      [] condition = "numDaysOld < 30 ? owner == 'NixOS' : gitRef" ->
           Ok(Ternary(Lt(Var("numDaysOld"), Lit(CelInt(30))),
                      Eq(Var("owner"), Lit(CelString("NixOS"))),
                      Var("gitRef")))
      [] condition = "numDaysOld < 30 ? owner == 'NixOS' : missing" ->
           Ok(Ternary(Lt(Var("numDaysOld"), Lit(CelInt(30))),
                      Eq(Var("owner"), Lit(CelString("NixOS"))),
                      Var("missing")))
      [] OTHER -> Err([error |-> "ParseError", expression |-> condition])

\* Value::to_bool
to_bool(v) ==
    CASE v.type = "bool" -> v.b
      [] v.type = "int" -> v.n # 0
      [] v.type = "string" -> v.s # ""
      [] OTHER -> v.l # <<>>

RECURSIVE resolve(_, _)

\* Program::execute: the value of the expression in the context, or the
\* ExecutionError of the first operand that has none.
resolve(expr, ctx) ==
    CASE expr.op = "lit" -> Ok(expr.value)
      [] expr.op = "var" ->
           IF expr.name \in DOMAIN ctx
             THEN Ok(ctx[expr.name])
             ELSE Err([error |-> "UndeclaredReference", name |-> expr.name])
      [] expr.op = "eq" ->
           LET left == resolve(expr.left, ctx) IN
           IF left.kind # "Ok" THEN left
           ELSE LET right == resolve(expr.right, ctx) IN
                IF right.kind # "Ok" THEN right
                ELSE Ok(CelBool(left.value = right.value))
      [] expr.op = "lt" ->
           LET left == resolve(expr.left, ctx) IN
           IF left.kind # "Ok" THEN left
           ELSE LET right == resolve(expr.right, ctx) IN
                IF right.kind # "Ok" THEN right
                ELSE IF left.value.type = "int" /\ right.value.type = "int"
                  THEN Ok(CelBool(left.value.n < right.value.n))
                  ELSE Err([error |-> "ValuesNotComparable", name |-> ""])
      [] expr.op = "ternary" ->
           LET cond == resolve(expr.cond, ctx) IN
           IF cond.kind # "Ok" THEN cond
           ELSE IF to_bool(cond.value)
             THEN resolve(expr.left, ctx)
             ELSE resolve(expr.right, ctx)
      [] OTHER ->
           LET target == resolve(expr.target, ctx) IN
           IF target.kind # "Ok" THEN target
           ELSE LET arg == resolve(expr.arg, ctx) IN
                IF arg.kind # "Ok" THEN arg
                ELSE Ok(CelBool(/\ target.value.type = "list"
                                /\ arg.value.type = "string"
                                /\ arg.value.s \in Elems(target.value.l)))

\* Context::default(): no variable is bound.
Context_default == [name \in {} |-> CelInt(0)]

\* Context::add_variable_from_value: `name` is bound to `value`, in place
\* of the value it was bound to if it was.
add_variable_from_value(ctx, name, value) ==
    [n \in DOMAIN ctx \cup {name} |-> IF n = name THEN value ELSE ctx[n]]

value_or_empty_string(value) ==
    IF value.some THEN CelString(value.value) ELSE CelString("")

value_or_zero(value) ==
    IF value.some THEN CelInt(value.value) ELSE CelInt(0)

\* flake::num_days_old: the whole days from `timestamp` to `now`.
num_days_old(timestamp, now) == num_days(now - timestamp)

\* Option::map(num_days_old)
map_num_days_old(last_modified, now) ==
    IF last_modified.some
      THEN Some(num_days_old(last_modified.value, now))
      ELSE None

\* add_cel_variables with a variable bound only when the dependency has the
\* fact.
add_cel_variables_SkipsMissing(ctx, git_ref, last_modified, owner, now) ==
    LET ctx1 == IF git_ref.some
                  THEN add_variable_from_value(ctx, "gitRef",
                                               value_or_empty_string(git_ref))
                  ELSE ctx
        ctx2 == IF last_modified.some
                  THEN add_variable_from_value(ctx1, "numDaysOld",
                           value_or_zero(map_num_days_old(last_modified, now)))
                  ELSE ctx1
    IN IF owner.some
         THEN add_variable_from_value(ctx2, "owner", value_or_empty_string(owner))
         ELSE ctx2

\* add_cel_variables with a variable that is bound left as it is.
add_cel_variables_KeepsBound(ctx, git_ref, last_modified, owner, now) ==
    LET bind(c, name, value) ==
          IF name \in DOMAIN c THEN c ELSE add_variable_from_value(c, name, value)
        ctx1 == bind(ctx, "gitRef", value_or_empty_string(git_ref))
        ctx2 == bind(ctx1, "numDaysOld",
                     value_or_zero(map_num_days_old(last_modified, now)))
    IN bind(ctx2, "owner", value_or_empty_string(owner))

add_cel_variables(ctx, git_ref, last_modified, owner, now) ==
    LET ctx1 == add_variable_from_value(ctx, "gitRef",
                                        value_or_empty_string(git_ref))
        ctx2 == add_variable_from_value(ctx1, "numDaysOld",
                    value_or_zero(map_num_days_old(last_modified, now)))
    IN add_variable_from_value(ctx2, "owner", value_or_empty_string(owner))

\* The `match node` of evaluate_condition: the facts of a dependency the
\* variables are bound from. The locked timestamp of a Tarball node is
\* optional.
node_facts(node) ==
    CASE node.variant = "Repo" ->
           [git_ref |-> node.git_ref, last_modified |-> Some(node.last_modified),
            owner |-> Some(node.owner)]
      [] node.variant = "Tarball" ->
           [git_ref |-> None,
            last_modified |-> IF "tarball_last_modified" \in DOMAIN node
                                THEN node.tarball_last_modified
                                ELSE None,
            owner |-> None]
      [] OTHER -> [git_ref |-> None, last_modified |-> None, owner |-> None]

\* match_result with an issue pushed for a dependency the expression is
\* true of, and none for one it is false of.
match_result_FlagsTrue(name, result) ==
    IF result.kind = "Ok"
      THEN IF result.value.type = "bool"
             THEN IF result.value.b
                    THEN Ok(<<Issue(name, "Violation", "", 0, "")>>)
                    ELSE Ok(<<>>)
             ELSE Err([type |-> "NonBooleanCondition",
                       type_name |-> result.value.type])
      ELSE Err([type |-> "CelExecution", source |-> result.error])

\* match_result with a dependency the expression gives no boolean for, or
\* fails for, passed over.
match_result_SkipsFailures(name, result) ==
    IF result.kind = "Ok" /\ result.value.type = "bool" /\ ~result.value.b
      THEN Ok(<<Issue(name, "Violation", "", 0, "")>>)
      ELSE Ok(<<>>)

\* The `match ... execute(&ctx)` of evaluate_condition: the issue pushed for
\* the dependency `name`, none, or the error returned.
match_result(name, result) ==
    IF result.kind = "Ok"
      THEN IF result.value.type = "bool"
             THEN IF ~result.value.b
                    THEN Ok(<<Issue(name, "Violation", "", 0, "")>>)
                    ELSE Ok(<<>>)
             ELSE Err([type |-> "NonBooleanCondition",
                       type_name |-> result.value.type])
      ELSE Err([type |-> "CelExecution", source |-> result.error])

RECURSIVE eval_deps(_, _, _, _, _, _)

\* The `for (name, node) in deps` loop of evaluate_condition, the HashMap
\* giving its entries in `order`: the variables are bound anew, the
\* expression is compiled and executed, for one dependency after the other.
eval_deps(deps, order, condition, ctx, now, issues) ==
    IF order = <<>> THEN Ok(issues)
    ELSE
      LET name == Head(order)
          facts == node_facts(deps[name])
          ctx1 == add_cel_variables(ctx, facts.git_ref, facts.last_modified,
                                    facts.owner, now)
          program == compile(condition)
      IN
      IF program.kind # "Ok"
        THEN Err([type |-> "CelParse", source |-> program.error])
      ELSE
        LET m == match_result(name, resolve(program.value, ctx1)) IN
        IF m.kind # "Ok" THEN m
        ELSE eval_deps(deps, Tail(order), condition, ctx1, now, issues \o m.value)

RECURSIVE contexts_seen(_, _, _, _, _)

\* The contexts `execute(&ctx)` is called with in the loop of
\* evaluate_condition, with the dependency each is called for: one for each
\* dependency the loop reaches before it returns.
contexts_seen(deps, order, condition, ctx, now) ==
    IF order = <<>> THEN <<>>
    ELSE
      LET name == Head(order)
          facts == node_facts(deps[name])
          ctx1 == add_cel_variables(ctx, facts.git_ref, facts.last_modified,
                                    facts.owner, now)
          program == compile(condition)
      IN
      IF program.kind # "Ok" THEN <<>>
      ELSE
        <<[name |-> name, ctx |-> ctx1]>>
        \o (IF match_result(name, resolve(program.value, ctx1)).kind # "Ok"
              THEN <<>>
              ELSE contexts_seen(deps, Tail(order), condition, ctx1, now))

\* The context of evaluate_condition before its loop.
initial_context(supported_refs) ==
    add_variable_from_value(Context_default, "supportedRefs",
                            CelList(supported_refs))

evaluate_condition(lock, nixpkgs_keys, condition, supported_refs, now, order) ==
    LET ctx == initial_context(supported_refs)
        deps == nixpkgs_deps(lock.root, nixpkgs_keys)
    IN
    IF deps.kind # "Ok" THEN deps
    ELSE eval_deps(deps.value, order, condition, ctx, now, <<>>)

----------------------------------------------------------------------------
(* src/main.rs: the exit without a lock file, the summary, the exit code.  *)

\* missing_lock_exit with a missing lock file never ignored.
missing_lock_exit_AlwaysFails(ignore_missing_flake_lock) == "FAILURE"

\* The `if !flake_lock_path.exists()` of main: the exit code of a run that
\* finds no lock file.
missing_lock_exit(ignore_missing_flake_lock) ==
    IF ignore_missing_flake_lock THEN "SUCCESS" ELSE "FAILURE"

\* Summary::generate_markdown: the summary is appended to the file that
\* GITHUB_STEP_SUMMARY names.
generate_markdown(environment) ==
    CASE environment.step_summary = "unset" -> Err([type |-> "EnvVar"])
      [] environment.step_summary = "unwritable" -> Err([type |-> "Io"])
      [] OTHER -> Ok("markdown")

\* The summary of main: Markdown, if asked for, and the console log in
\* GitHub Actions, text elsewhere.
generate_summary(config, environment) ==
    IF environment.github_actions
      THEN LET md == IF config.markdown_summary
                       THEN generate_markdown(environment)
                       ELSE Ok("none")
           IN IF md.kind # "Ok" THEN md ELSE Ok("console")
      ELSE Ok("text")

\* The last statements of main, with the issues counted whether or not
\* fail_mode is set.
final_exit_IgnoresFailMode(fail_mode, issues) ==
    IF issues # <<>> THEN "FAILURE" ELSE "SUCCESS"

\* The last statements of main: the exit code of a run that has reported.
final_exit(fail_mode, issues) ==
    IF fail_mode /\ issues # <<>> THEN "FAILURE" ELSE "SUCCESS"

\* The sorted list main passes as supported_refs.
SupportedRefs ==
    << "nixos-22.11", "nixos-22.11-small", "nixos-23.05", "nixos-23.05-small",
       "nixos-unstable", "nixos-unstable-small", "nixpkgs-22.11-darwin",
       "nixpkgs-23.05-darwin", "nixpkgs-unstable" >>

----------------------------------------------------------------------------
(* The documents and configurations the model is run on.                   *)

Node(v, inputs, git_ref, last_modified, owner) ==
    [variant |-> v, inputs |-> inputs, git_ref |-> git_ref,
     last_modified |-> last_modified, owner |-> owner]

\* A node of variant v; a Repo node has the facts of a clean nixpkgs input,
\* 20 days old at the earliest time of NowSet, and the facts of the other
\* variants are not read.
Plain(v, inputs) ==
    IF v = "Repo"
      THEN Node(v, inputs, Some("nixos-unstable"),
                1700000000 - 20 * SECONDS_PER_DAY, "NixOS")
      ELSE Node(v, inputs, None, 0, "")

\* The times Utc::now() gives.
NowSet == { 1700000000, 1700000000 + 12 * SECONDS_PER_DAY }

TypedVariants == { "Repo", "Indirect", "Path", "Tarball" }

\* The references the inputs of a node of the table hold under the name "i".
InnerRefs ==
    { InputString("b"), InputString("ghost"), InputList(<<"a", "i">>),
      InputList(<<"b", "i">>), InputList(<<"b">>), InputList(<<>>) }

InnerMaps == { EmptyMap } \cup { [k \in {"i"} |-> r] : r \in InnerRefs }

StructNodesA ==
    { Plain(v, JMap(m)) : v \in {"Repo", "Fallthrough"}, m \in InnerMaps }
    \cup { Plain(v, j) : v \in TypedVariants \cup {"Fallthrough"},
                         j \in {JAbsent, JNull} }
    \cup { Plain(v, JMap([k \in {"i"} |-> InputString("b")])) :
             v \in {"Indirect", "Path", "Tarball", "Root"} }
    \cup { Plain("Fallthrough", JMalformed), Plain("Root", JMap(EmptyMap)) }

StructNodesB ==
    { Plain("Repo", JAbsent),
      Node("Repo", JMap([k \in {"i"} |-> InputString("a")]),
           Some("this-should-fail"), 1700000000 - 40 * SECONDS_PER_DAY,
           "bitcoin-miner-org"),
      Plain("Fallthrough", JMap([k \in {"i"} |-> InputList(<<"a", "i">>)])),
      Plain("Path", JMap([k \in {"i"} |-> InputList(<<"b">>)])) }

\* The references the Root node holds for its input "nixpkgs" ...
RootRefs ==
    { InputString("a"), InputString("b"), InputString("ghost"),
      InputList(<<"a">>), InputList(<<"b">>), InputList(<<"ghost">>),
      InputList(<<"a", "i">>), InputList(<<"b", "i">>),
      InputList(<<"a", "j">>), InputList(<<"a", "i", "i">>),
      InputList(<<>>) }

\* ... and for its input "alt", when it has one.
AltRefs == { InputString("b"), InputList(<<"a", "i">>) }

RootInputs ==
    { [k \in {"nixpkgs"} |-> r] : r \in RootRefs }
    \cup { [k \in {"nixpkgs", "alt"} |-> IF k = "nixpkgs" THEN r ELSE q] :
             r \in RootRefs, q \in AltRefs }
    \cup { EmptyMap }

Doc(root_inputs, a, b, root) ==
    [nodes |-> [n \in {"root", "a", "b"} |->
                  CASE n = "root" -> Node("Root", JMap(root_inputs), None, 0, "")
                    [] n = "a" -> a
                    [] OTHER -> b],
     root |-> root, version |-> 7]

\* Documents that vary in the shape of the graph.
StructDocs ==
    { Doc(ri, a, b, "root") : ri \in RootInputs, a \in StructNodesA,
                              b \in StructNodesB }
    \cup { Doc([k \in {"nixpkgs"} |-> InputString("b")], a, Plain("Repo", JAbsent), r) :
             a \in StructNodesA, r \in {"a", "b", "ghost"} }

\* The arguments of a run: the three flags and the key list as given, the
\* others at the defaults of Cli.
Config(supported, outdated, owner, keys) ==
    [check_supported |-> supported, check_outdated |-> outdated,
     check_owner |-> owner, fail_mode |-> FALSE, nixpkgs_keys |-> keys,
     ignore_missing_flake_lock |-> TRUE, markdown_summary |-> TRUE,
     condition |-> None]

StructConfigs ==
    { Config(TRUE, TRUE, TRUE, <<"nixpkgs">>),
      Config(FALSE, FALSE, FALSE, <<"nixpkgs", "alt">>) }

\* Documents whose inputs are direct and that vary in the facts of the
\* nodes.
FactNodesA ==
    { Node("Repo", JAbsent, ref, lm, owner) :
        ref \in { None, Some("nixos-unstable"), Some("this-should-fail") },
        lm \in { 1700000000 - 20 * SECONDS_PER_DAY,
                 1700000000 - 30 * SECONDS_PER_DAY,
                 1700000000 - 30 * SECONDS_PER_DAY - 1,
                 1700000000 - 31 * SECONDS_PER_DAY },
        owner \in { "NixOS", "nixos", "bitcoin-miner-org" } }
    \cup { Plain("Path", JAbsent), Plain("Fallthrough", JAbsent) }

FactNodesB ==
    { Plain("Repo", JAbsent),
      Node("Repo", JAbsent, Some("probably-nefarious"),
           1700000000 - 45 * SECONDS_PER_DAY, "pretty-shady"),
      Node("Repo", JAbsent, None, 1700000000 + SECONDS_PER_DAY, "NIXOS"),
      Plain("Tarball", JAbsent) }

FactDocs ==
    { Doc([k \in {"nixpkgs", "alt"} |->
             IF k = "nixpkgs" THEN InputString("a") ELSE InputString("b")],
          a, b, "root") : a \in FactNodesA, b \in FactNodesB }

KeyLists ==
    { <<"nixpkgs">>, <<"nixpkgs", "alt">>, <<"alt", "nixpkgs">>,
      <<"nixpkgs", "foo", "bar">>, <<"foo">> }

FactConfigs ==
    { Config(s, o, w, keys) : s \in BOOLEAN, o \in BOOLEAN, w \in BOOLEAN,
                              keys \in KeyLists }

----------------------------------------------------------------------------
(* The state machine.                                                      *)

NotParsed == [kind |-> "NotParsed"]

NoReport == [kind |-> "None"]

\* No function is applied on its own in a run of main.
NoUnit == [op |-> "none"]

\* The environment of a run outside GitHub Actions.
LocalEnv == [github_actions |-> FALSE, step_summary |-> "unset"]

Envs ==
    [github_actions : BOOLEAN,
     step_summary : {"writable", "unset", "unwritable"}]

\* What stands at the lock path when no file does.
NoDoc == [nodes |-> [n \in {} |-> Plain("Root", JAbsent)], root |-> "root",
          version |-> 7]

\* Documents and arguments of the runs followed to their exit code.
ExitDocs ==
    { Doc([k \in {"nixpkgs"} |-> InputString("a")], a, Plain("Repo", JAbsent),
          "root") :
        a \in { Plain("Repo", JAbsent),
                Node("Repo", JAbsent, Some("this-should-fail"),
                     1700000000 - 31 * SECONDS_PER_DAY, "bitcoin-miner-org"),
                Plain("Path", JAbsent) } }

ExitConfigs ==
    { [Config(TRUE, TRUE, TRUE, <<"nixpkgs">>)
         EXCEPT !.fail_mode = f, !.markdown_summary = m, !.condition = c] :
        f \in BOOLEAN, m \in BOOLEAN,
        c \in { None, Some("owner == 'NixOS'"), Some("owner ==") } }

\* Documents and arguments of the runs in expression mode.
CondNodesA ==
    { Plain("Repo", JAbsent),
      Node("Repo", JAbsent, Some("this-should-fail"),
           1700000000 - 20 * SECONDS_PER_DAY, "bitcoin-miner-org"),
      Node("Repo", JAbsent, None, 1700000000 - 31 * SECONDS_PER_DAY, "nixos"),
      Plain("Path", JAbsent) }

CondDocs ==
    { Doc([k \in {"nixpkgs", "alt"} |->
             IF k = "nixpkgs" THEN InputString("a") ELSE InputString("b")],
          a, b, "root") : a \in CondNodesA, b \in FactNodesB }

CondKeyLists ==
    { <<>>, <<"nixpkgs">>, <<"nixpkgs", "alt">>, <<"alt", "nixpkgs">>,
      <<"foo">> }

CondConfigs ==
    { [Config(TRUE, TRUE, TRUE, keys) EXCEPT !.condition = Some(c)] :
        keys \in CondKeyLists, c \in Conditions }

\* Arguments of the runs that find no lock file.
MissingConfigs ==
    { [Config(s, o, w, <<"nixpkgs">>)
         EXCEPT !.fail_mode = f, !.ignore_missing_flake_lock = g,
                !.condition = c] :
        s \in BOOLEAN, o \in BOOLEAN, w \in BOOLEAN, f \in BOOLEAN,
        g \in BOOLEAN, c \in { None, Some("owner == 'NixOS'") } }

Init ==
    /\ \/ /\ doc \in StructDocs /\ cli \in StructConfigs
          /\ env = LocalEnv /\ lock_exists = TRUE
       \/ /\ doc \in FactDocs /\ cli \in FactConfigs
          /\ env = LocalEnv /\ lock_exists = TRUE
       \/ /\ doc \in CondDocs /\ cli \in CondConfigs
          /\ env = LocalEnv /\ lock_exists = TRUE
       \/ /\ doc \in ExitDocs /\ cli \in ExitConfigs
          /\ env \in Envs /\ lock_exists = TRUE
       \/ /\ doc = NoDoc /\ cli \in MissingConfigs
          /\ env \in Envs /\ lock_exists = FALSE
    /\ pc = "start"
    /\ flake_lock = NotParsed
    /\ calls = <<>>
    /\ evals = <<>>
    /\ report = NoReport
    /\ exit_code = "running"
    /\ unit = NoUnit

\* main finds no file at flake_lock_path and returns.
MissingLock ==
    /\ pc = "start"
    /\ exit_code = "running"
    /\ ~lock_exists
    /\ exit_code' = missing_lock_exit(cli.ignore_missing_flake_lock)
    /\ UNCHANGED <<unit, doc, cli, env, lock_exists, pc, flake_lock, calls, evals,
                   report>>

\* FlakeLock::new(&flake_lock_path)
Parse ==
    /\ pc = "start"
    /\ exit_code = "running"
    /\ lock_exists
    /\ \E order \in Orders(root_input_names(doc)) :
         /\ flake_lock' = FlakeLock_new(doc, order)
         /\ pc' = CASE flake_lock'.kind = "Ok" -> "parsed"
                    [] flake_lock'.kind = "Err" -> "failed"
                    [] OTHER -> "crashed"
    /\ UNCHANGED <<unit, doc, cli, env, lock_exists, calls, evals, report, exit_code>>

\* main returns the error of FlakeLock::new.
ParseError ==
    /\ pc = "failed"
    /\ exit_code = "running"
    /\ exit_code' = "FAILURE"
    /\ UNCHANGED <<unit, doc, cli, env, lock_exists, pc, flake_lock, calls, evals,
                   report>>

\* check_flake_lock(&flake_lock, &config), the call of a run with no
\* condition
CheckFlakeLock ==
    /\ pc = "parsed"
    /\ exit_code = "running"
    /\ ~cli.condition.some
    /\ Len(calls) < MaxCalls
    /\ \E now \in NowSet :
         \E order \in Orders(dep_names(flake_lock.value.root, cli.nixpkgs_keys)) :
           calls' = Append(calls,
                      [now |-> now,
                       result |-> check_flake_lock(flake_lock.value, cli, now, order)])
    /\ UNCHANGED <<unit, doc, cli, env, lock_exists, pc, flake_lock, evals, report,
                   exit_code>>

\* evaluate_condition(&flake_lock, &nixpkgs_keys, condition, supported_refs),
\* the call of a run with a condition
EvaluateCondition ==
    /\ pc = "parsed"
    /\ exit_code = "running"
    /\ cli.condition.some
    /\ Len(evals) < MaxCalls
    /\ \E now \in NowSet :
         \E order \in Orders(dep_names(flake_lock.value.root, cli.nixpkgs_keys)) :
           evals' = Append(evals,
                      [now |-> now, order |-> order,
                       result |-> evaluate_condition(flake_lock.value,
                                    cli.nixpkgs_keys, cli.condition.value,
                                    SupportedRefs, now, order)])
    /\ UNCHANGED <<unit, doc, cli, env, lock_exists, pc, flake_lock, calls, report,
                   exit_code>>

\* What the one evaluation of main gave.
Evaluated == IF cli.condition.some THEN evals[1].result ELSE calls[1].result

\* main after its evaluation: the error of the evaluation is returned, or
\* the summary is generated and its error returned, or the exit code is
\* chosen from fail_mode and the issues.
Exit ==
    /\ pc = "parsed"
    /\ exit_code = "running"
    /\ Len(calls) + Len(evals) = 1
    /\ IF Evaluated.kind # "Ok"
         THEN /\ report' = report
              /\ exit_code' = "FAILURE"
         ELSE /\ report' = generate_summary(cli, env)
              /\ exit_code' = IF report'.kind # "Ok"
                                THEN "FAILURE"
                                ELSE final_exit(cli.fail_mode, Evaluated.value)
    /\ UNCHANGED <<unit, doc, cli, env, lock_exists, pc, flake_lock, calls, evals>>

Next ==
    \/ MissingLock
    \/ Parse
    \/ ParseError
    \/ CheckFlakeLock
    \/ EvaluateCondition
    \/ Exit

Spec == Init /\ [][Next]_vars

----------------------------------------------------------------------------
(* The functions applied on their own: the deserialization of a node       *)
(* object, and the loop of evaluate_condition over dependencies of every   *)
(* variant.                                                                *)

\* The keys of the `locked` object of a node object, if it has one.
LockedKeys ==
    { None,
      Some({}),
      Some({"lastModified", "narHash", "owner", "repo", "rev", "type"}),
      Some({"lastModified", "narHash", "owner", "repo", "type"}),
      Some({"lastModified", "narHash", "owner", "repo", "rev", "type", "path"}),
      Some({"lastModified", "narHash", "owner", "repo", "rev", "type", "path",
            "url"}),
      Some({"lastModified", "narHash", "path", "type"}),
      Some({"lastModified", "narHash", "path", "type", "url"}),
      Some({"lastModified", "narHash", "rev", "type", "url"}),
      Some({"narHash", "type", "url"}),
      Some({"narHash", "type"}) }

\* The keys of the `original` object of a node object, if it has one.
OriginalKeys ==
    { None,
      Some({"type"}),
      Some({"owner", "repo", "type"}),
      Some({"owner", "repo", "ref", "type"}),
      Some({"id", "type"}),
      Some({"owner", "repo", "id", "type"}),
      Some({"path", "type"}),
      Some({"path", "ref", "type"}),
      Some({"path", "url", "type"}),
      Some({"url", "type"}),
      Some({"owner", "repo", "id", "path", "url", "type"}) }

JsonNodes ==
    { JsonNode(extra, inputs, locked, original) :
        extra \in { {}, {"flake"}, {"parent"}, {"flake", "parent"} },
        inputs \in { JAbsent, JNull, JMalformed,
                     JMap([k \in {"i"} |-> InputString("b")]) },
        locked \in LockedKeys,
        original \in OriginalKeys }

\* A Tarball node, with the locked timestamp evaluate_condition reads.
TarballNode(last_modified) ==
    [variant |-> "Tarball", inputs |-> JAbsent, git_ref |-> None,
     last_modified |-> 0, owner |-> "",
     tarball_last_modified |-> last_modified]

\* The dependencies the loop of evaluate_condition is applied to.
UnitNodes ==
    { Node("Repo", JAbsent, Some("nixos-unstable"),
           1700000000 - 20 * SECONDS_PER_DAY, "NixOS"),
      Node("Repo", JAbsent, None, 1700000000 - 31 * SECONDS_PER_DAY,
           "bitcoin-miner-org"),
      TarballNode(Some(1700000000 - 40 * SECONDS_PER_DAY)),
      TarballNode(None),
      Plain("Path", JAbsent) }

UnitNames == { "nixpkgs", "alt", "extra" }

UnitDeps ==
    UNION { [names -> UnitNodes] : names \in SUBSET UnitNames }

NoResult == [kind |-> "None"]

UnitInit ==
    /\ doc = NoDoc
    /\ cli = Config(TRUE, TRUE, TRUE, <<"nixpkgs">>)
    /\ env = LocalEnv
    /\ lock_exists = FALSE
    /\ pc = "unit"
    /\ flake_lock = NotParsed
    /\ calls = <<>>
    /\ evals = <<>>
    /\ report = NoReport
    /\ exit_code = "running"
    /\ \/ \E j \in JsonNodes :
            unit = [op |-> "deserialize", done |-> FALSE, node |-> j,
                    out |-> NoResult]
       \/ \E deps \in UnitDeps, condition \in Conditions, now \in NowSet :
            \E order \in Orders(DOMAIN deps) :
              unit = [op |-> "eval_deps", done |-> FALSE, deps |-> deps,
                      order |-> order, condition |-> condition, now |-> now,
                      out |-> NoResult]

\* Node::deserialize, for one node object of the table
DeserializeNode ==
    /\ unit.op = "deserialize"
    /\ ~unit.done
    /\ unit' = [unit EXCEPT !.done = TRUE, !.out = deserialize_node(unit.node)]
    /\ UNCHANGED <<doc, cli, env, lock_exists, pc, flake_lock, calls, evals,
                   report, exit_code>>

\* The loop of evaluate_condition over `deps`, from the context with
\* supportedRefs bound
EvalDeps ==
    /\ unit.op = "eval_deps"
    /\ ~unit.done
    /\ LET ctx == initial_context(SupportedRefs) IN
       unit' = [unit EXCEPT
                  !.done = TRUE,
                  !.out = [result |-> eval_deps(unit.deps, unit.order,
                                                unit.condition, ctx, unit.now,
                                                <<>>),
                           seen |-> contexts_seen(unit.deps, unit.order,
                                                  unit.condition, ctx,
                                                  unit.now)]]
    /\ UNCHANGED <<doc, cli, env, lock_exists, pc, flake_lock, calls, evals,
                   report, exit_code>>

UnitNext ==
    \/ DeserializeNode
    \/ EvalDeps

UnitSpec == UnitInit /\ [][UnitNext]_vars

----------------------------------------------------------------------------
(* Properties of the parser.                                               *)

\* The inputs of the Root node of a document whose `root` names one.
RootInputsOf(d) == d.nodes[d.root].inputs.map

\* C1: once a document has parsed, the names of FlakeLock.root are exactly
\* the names of the inputs of the Root node: none is missing, none is added.
C1_RootKeysExact ==
    pc = "parsed" => DOMAIN flake_lock.value.root = DOMAIN RootInputsOf(doc)

\* A document with two inputs, one of them a chain of two names, has parsed.
C1_Witness ==
    /\ pc = "parsed"
    /\ DOMAIN flake_lock.value.root = {"nixpkgs", "alt"}
    /\ RootInputsOf(doc)["nixpkgs"].tag = "List"
    /\ Len(RootInputsOf(doc)["nixpkgs"].keys) = 2

\* The node a reference held by a node's inputs stands for, resolved from
\* the whole node table.
Deref(nodes, ref) ==
    IF ref.tag = "String"
      THEN nodes[ref.s]
      ELSE chase_input_node(nodes, ref.keys, 0).value

\* The root inputs of d that are a chain of exactly two names.
TwoHopInputs(d) ==
    { k \in DOMAIN RootInputsOf(d) :
        RootInputsOf(d)[k].tag = "List" /\ Len(RootInputsOf(d)[k].keys) = 2 }

\* C2: resolution is compositional. In a document the parser has been run
\* on, every chain [A, B] that resolves, and every root input [A, B] if the
\* document has parsed, resolves to the
\* node that A's inputs[B] stands for: nodes[s] for a name s, the resolution
\* of c from the whole table for a chain c.
C2_Compositional ==
    /\ pc # "start" =>
         \A A \in DOMAIN doc.nodes, B \in {"i", "j"} :
           LET r == chase_input_node(doc.nodes, <<A, B>>, 0) IN
           r.kind = "Ok" =>
             r.value = Deref(doc.nodes, maybe_node_inputs(doc.nodes[A]).value.value[B])
    /\ pc = "parsed" =>
         \A k \in TwoHopInputs(doc) :
           LET A == RootInputsOf(doc)[k].keys[1]
               B == RootInputsOf(doc)[k].keys[2]
           IN flake_lock.value.root[k]
                = Deref(doc.nodes, maybe_node_inputs(doc.nodes[A]).value.value[B])

\* A chain [a, i] has resolved through a's inputs["i"], itself a chain.
C2_Witness ==
    /\ pc = "parsed"
    /\ "nixpkgs" \in TwoHopInputs(doc)
    /\ RootInputsOf(doc)["nixpkgs"].keys = <<"a", "i">>
    /\ maybe_node_inputs(doc.nodes["a"]).value.value["i"].tag = "List"
    /\ flake_lock.value.root["nixpkgs"] # doc.nodes["a"]

\* A reference in its other spelling: a name s as the chain [s], a chain of
\* one name as that name.
Respell(ref) ==
    IF ref.tag = "String" THEN InputList(<<ref.s>>)
    ELSE IF Len(ref.keys) = 1 THEN InputString(ref.keys[1])
    ELSE ref

\* The document with every input of its Root node respelled.
Respelled(d) ==
    [d EXCEPT !.nodes[d.root].inputs =
       JMap([k \in DOMAIN RootInputsOf(d) |-> Respell(RootInputsOf(d)[k])])]

\* What a parse gave its caller, apart from the node table it was given.
Outcome(r) == IF r.kind = "Ok" THEN Ok(r.value.root) ELSE r

\* C3: a root input written as the name n and one written as the chain [n]
\* resolve to the same node and fail in the same cases: what the parse of a
\* document gave is what the parse of the respelled document gives.
C3_RepresentationInvariant ==
    (pc # "start" /\ root_input_names(doc) # {}) =>
      \E order \in Orders(root_input_names(doc)) :
        Outcome(flake_lock) = Outcome(FlakeLock_new(Respelled(doc), order))

\* A document whose input is the chain ["a"] has parsed, as the one whose
\* input is the name "a" does.
C3_Witness ==
    /\ pc = "parsed"
    /\ "nixpkgs" \in DOMAIN RootInputsOf(doc)
    /\ RootInputsOf(doc)["nixpkgs"] = InputList(<<"a">>)
    /\ flake_lock.value.root["nixpkgs"] = doc.nodes["a"]

\* C4: a chain that names a node absent from the node table, as its first
\* name or as the name reached at a later hop, makes resolution fail with an
\* error value: the lookup of the name in the table does not panic.
C4_MissingNodeIsErrorValue ==
    flake_lock.kind = "Panic" =>
      flake_lock.site \notin {"nodes[&next_input]", "nodes[s]"}

\* C5: every failure of parsing and resolution is an error value and none is
\* a panic, also when `root` names a key absent from `nodes` and when a hop
\* is absent from the inputs of the current node.
C5_NoPanic ==
    pc # "start" => flake_lock.kind # "Panic"

\* The root inputs of d whose resolution does not give a node.
FailingInputs(d) ==
    { k \in DOMAIN RootInputsOf(d) :
        chase_input_node(d.nodes, root_chain(RootInputsOf(d)[k]), 0).kind # "Ok" }

\* C6: if the resolution of any input of the Root node fails, the parse
\* returns an error that names that input, and gives no FlakeLock.
C6_FailureNamesInput ==
    (pc # "start" /\ root_input_names(doc) # {} /\ FailingInputs(doc) # {}) =>
      /\ flake_lock.kind = "Err"
      /\ flake_lock.error.source.message = "failed to chase input"
      /\ flake_lock.error.source.root_name \in FailingInputs(doc)

C8_CycleIsAnError ==
    pc # "start" => flake_lock.kind # "StackOverflow"

----------------------------------------------------------------------------
(* Properties of the fixed-rule evaluator.                                 *)

AllChecksOff ==
    ~cli.check_supported /\ ~cli.check_outdated /\ ~cli.check_owner

\* Every target key names a Repo node of the resolved roots.
AllKeysSelected ==
    \A i \in DOMAIN cli.nixpkgs_keys :
      /\ cli.nixpkgs_keys[i] \in DOMAIN flake_lock.value.root
      /\ flake_lock.value.root[cli.nixpkgs_keys[i]].variant = "Repo"

\* C9 as claimed: with the three checks off, check_flake_lock returns an
\* empty issue list for every parsed document and every list of target keys.
C9_AlwaysEmptyList ==
    AllChecksOff =>
      \A i \in DOMAIN calls : calls[i].result = Ok(<<>>)

\* C9 as amended: with the three checks off, check_flake_lock returns the
\* empty issue list when every target key names a Repo node of the resolved
\* roots, and the error that lists the missing keys when one does not; it
\* never returns an issue.
C9_EmptyListOrMissingKeys ==
    AllChecksOff =>
      \A i \in DOMAIN calls :
        IF AllKeysSelected
          THEN calls[i].result = Ok(<<>>)
          ELSE /\ calls[i].result.kind = "Err"
               /\ calls[i].result.error.type = "Invalid"
               /\ calls[i].result.error.missing # <<>>

\* With the three checks off, two dependencies that each break every rule
\* at the time of the call have given no issue.
C9_Witness ==
    /\ AllChecksOff
    /\ cli.nixpkgs_keys = <<"nixpkgs", "alt">>
    /\ Len(calls) > 0
    /\ calls[1].result = Ok(<<>>)
    /\ \A k \in {"nixpkgs", "alt"} :
         /\ flake_lock.value.root[k].git_ref.some
         /\ flake_lock.value.root[k].git_ref.value \notin ALLOWED_REFS
         /\ to_lowercase(flake_lock.value.root[k].owner) # "nixos"
         /\ num_days(calls[1].now - flake_lock.value.root[k].last_modified) > MAX_DAYS

\* C10: two calls of check_flake_lock on the same resolved roots and config,
\* at the same time, return the same issues in the same order.
C10_Idempotent ==
    \A i, j \in DOMAIN calls :
      calls[i].now = calls[j].now => calls[i].result = calls[j].result

\* The places of the key list `keys` whose key names no Repo node of `root`.
Unselected(root, keys) ==
    { n \in DOMAIN keys :
        ~(keys[n] \in DOMAIN root /\ root[keys[n]].variant = "Repo") }

RECURSIVE ListFrom(_, _, _)

\* The keys at the places of S from place n on, in the order of the list,
\* with ", " between two of them.
ListFrom(keys, S, n) ==
    IF n > Len(keys) THEN ""
    ELSE IF n \notin S THEN ListFrom(keys, S, n + 1)
    ELSE IF \E m \in S : m > n
      THEN keys[n] \o ", " \o ListFrom(keys, S, n + 1)
      ELSE keys[n]

\* C11: if one or more target keys have no selected dependency, the call
\* returns no issue list but the invalid-document error, and its message
\* lists every such key, in the order of the key list and joined by ", ",
\* after "keys" when more than one is missing and "key" when one is.
C11_MissingKeysListed ==
    \A i \in DOMAIN calls :
      LET S == Unselected(flake_lock.value.root, cli.nixpkgs_keys) IN
      S # {} =>
        /\ calls[i].result.kind = "Err"
        /\ calls[i].result.error.type = "Invalid"
        /\ calls[i].result.error.text
             = "no nixpkgs dependency found for specified "
                 \o (IF Cardinality(S) > 1 THEN "keys" ELSE "key")
                 \o ": " \o ListFrom(cli.nixpkgs_keys, S, 1)

\* The call with the keys nixpkgs, foo and bar, of which the roots hold the
\* first as a Repo node, has failed and named the other two.
C11_Witness ==
    /\ cli.nixpkgs_keys = <<"nixpkgs", "foo", "bar">>
    /\ Len(calls) > 0
    /\ flake_lock.value.root["nixpkgs"].variant = "Repo"
    /\ calls[1].result.kind = "Err"
    /\ calls[1].result.error.text
         = "no nixpkgs dependency found for specified keys: foo, bar"

\* The target keys that name a node of the resolved roots of another
\* variant than Repo.
OtherVariantKeys ==
    { k \in Elems(cli.nixpkgs_keys) :
        /\ k \in DOMAIN flake_lock.value.root
        /\ flake_lock.value.root[k].variant # "Repo" }

KindsFor(issues, k) ==
    LET about_k(issue) == issue.input = k
        of_k == SelectSeq(issues, about_k)
    IN [n \in DOMAIN of_k |-> of_k[n].kind]

\* Whether the rule that gives issues of `kind` is enabled and its condition
\* holds of the Repo node `repo` at the time `now`.
RuleHolds(kind, repo, now) ==
    CASE kind = "Disallowed" ->
           /\ cli.check_supported
           /\ repo.git_ref.some
           /\ repo.git_ref.value \notin ALLOWED_REFS
      [] kind = "Outdated" ->
           /\ cli.check_outdated
           /\ now - repo.last_modified >= (MAX_DAYS + 1) * SECONDS_PER_DAY
      [] OTHER ->
           /\ cli.check_owner
           /\ repo.owner \notin {"NixOS", "nixos", "NIXOS"}

\* C13: the three rules do not short-circuit one another: for each selected
\* dependency the call returns one issue for each enabled rule whose
\* condition holds and no other, each rule decided on its own, in the order
\* Disallowed, Outdated, NonUpstream.
C13_RulesIndependent ==
    \A i \in DOMAIN calls :
      calls[i].result.kind = "Ok" =>
        \A k \in Elems(cli.nixpkgs_keys) :
          LET holds(kind) == RuleHolds(kind, flake_lock.value.root[k], calls[i].now)
          IN KindsFor(calls[i].result.value, k)
               = SelectSeq(<<"Disallowed", "Outdated", "NonUpstream">>, holds)

\* A dependency that breaks the three rules has been given three issues.
C13_Witness ==
    /\ cli.nixpkgs_keys = <<"nixpkgs">>
    /\ Len(calls) > 0
    /\ calls[1].result.kind = "Ok"
    /\ KindsFor(calls[1].result.value, "nixpkgs")
         = <<"Disallowed", "Outdated", "NonUpstream">>

\* The Outdated issues of a list that are about the input k.
OutdatedFor(issues, k) ==
    { n \in DOMAIN issues : issues[n].input = k /\ issues[n].kind = "Outdated" }

\* Whether d is the number of whole days of `diff` seconds, a started day
\* not counted.
IsWholeDays(d, diff) ==
    d * SECONDS_PER_DAY <= diff /\ diff < (d + 1) * SECONDS_PER_DAY

\* C14 as claimed: with the max-age check enabled, a selected dependency
\* whose locked timestamp is older than now - MAX_DAYS * 86400 seconds is
\* given an Outdated issue, whose num_days_old is the whole days of
\* now - last_modified.
C14_OlderThanMaxDaysIsOutdated ==
    \A i \in DOMAIN calls :
      (cli.check_outdated /\ calls[i].result.kind = "Ok") =>
        \A k \in Elems(cli.nixpkgs_keys) :
          LET diff == calls[i].now - flake_lock.value.root[k].last_modified IN
          diff > MAX_DAYS * SECONDS_PER_DAY =>
            \E n \in OutdatedFor(calls[i].result.value, k) :
              IsWholeDays(calls[i].result.value[n].num_days_old, diff)

\* C14 as amended: with the max-age check enabled, a selected dependency
\* whose locked timestamp is (MAX_DAYS + 1) * 86400 seconds or more before
\* now, so that its whole days exceed MAX_DAYS, is given an Outdated issue,
\* whose num_days_old is the whole days of now - last_modified.
C14_MoreThanMaxWholeDaysIsOutdated ==
    \A i \in DOMAIN calls :
      (cli.check_outdated /\ calls[i].result.kind = "Ok") =>
        \A k \in Elems(cli.nixpkgs_keys) :
          LET diff == calls[i].now - flake_lock.value.root[k].last_modified IN
          diff >= (MAX_DAYS + 1) * SECONDS_PER_DAY =>
            \E n \in OutdatedFor(calls[i].result.value, k) :
              IsWholeDays(calls[i].result.value[n].num_days_old, diff)

\* A dependency locked 42 days and one second before the call has been
\* given an Outdated issue of 42 days.
C14_Witness ==
    /\ cli.check_outdated
    /\ cli.nixpkgs_keys = <<"nixpkgs">>
    /\ Len(calls) > 0
    /\ calls[1].result.kind = "Ok"
    /\ calls[1].now - flake_lock.value.root["nixpkgs"].last_modified
         = 42 * SECONDS_PER_DAY + 1
    /\ \E n \in OutdatedFor(calls[1].result.value, "nixpkgs") :
         calls[1].result.value[n].num_days_old = 42

\* The issues of a list that are of `kind` and about the input k.
IssuesOfKind(issues, kind, k) ==
    { n \in DOMAIN issues : issues[n].input = k /\ issues[n].kind = kind }

\* Whether d is the quotient of `diff` seconds by the seconds of a day,
\* truncated toward zero.
IsTruncatedDays(d, diff) ==
    IF diff >= 0
      THEN d * SECONDS_PER_DAY <= diff /\ diff < (d + 1) * SECONDS_PER_DAY
      ELSE (d - 1) * SECONDS_PER_DAY < diff /\ diff <= d * SECONDS_PER_DAY

\* C24: with the max-age check enabled, a selected dependency is given an
\* Outdated issue if and only if the days of now - last_modified, truncated
\* toward zero, exceed MAX_DAYS; it is given one such issue at most, which
\* carries that number of days. An input of MAX_DAYS days, or one locked
\* after now, is given none.
C24_OutdatedIffMoreThanMaxDays ==
    \A i \in DOMAIN calls :
      (cli.check_outdated /\ calls[i].result.kind = "Ok") =>
        \A k \in Elems(cli.nixpkgs_keys) :
          LET diff == calls[i].now - flake_lock.value.root[k].last_modified
              outdated == IssuesOfKind(calls[i].result.value, "Outdated", k)
          IN
          /\ outdated # {} <=> (\E d \in MAX_DAYS + 1 .. 100 : IsTruncatedDays(d, diff))
          /\ Cardinality(outdated) <= 1
          /\ \A n \in outdated :
               IsTruncatedDays(calls[i].result.value[n].num_days_old, diff)
          /\ (diff < (MAX_DAYS + 1) * SECONDS_PER_DAY) => outdated = {}

\* With the max-age check enabled, an input locked MAX_DAYS days and one
\* second before the call and an input locked a day after it have been
\* given no Outdated issue.
C24_Witness ==
    /\ cli.check_outdated
    /\ cli.nixpkgs_keys = <<"nixpkgs", "alt">>
    /\ Len(calls) > 0
    /\ calls[1].result.kind = "Ok"
    /\ calls[1].now - flake_lock.value.root["nixpkgs"].last_modified
         = MAX_DAYS * SECONDS_PER_DAY + 1
    /\ calls[1].now - flake_lock.value.root["alt"].last_modified
         = -SECONDS_PER_DAY
    /\ IssuesOfKind(calls[1].result.value, "Outdated", "nixpkgs") = {}
    /\ IssuesOfKind(calls[1].result.value, "Outdated", "alt") = {}

\* C25: with the supported-ref check enabled, a selected dependency is given
\* a Disallowed issue if and only if it has a git ref and the ref is not one
\* of ALLOWED_REFS; the issue is the only one and carries the ref. An input
\* with no git ref is given none, and with the check disabled no input is.
C25_DisallowedIffRefNotAllowed ==
    \A i \in DOMAIN calls :
      calls[i].result.kind = "Ok" =>
        \A k \in Elems(cli.nixpkgs_keys) :
          LET git_ref == flake_lock.value.root[k].git_ref
              disallowed == IssuesOfKind(calls[i].result.value, "Disallowed", k)
          IN
          /\ ~cli.check_supported => disallowed = {}
          /\ ~git_ref.some => disallowed = {}
          /\ (cli.check_supported /\ git_ref.some) =>
               /\ disallowed # {} <=> git_ref.value \notin ALLOWED_REFS
               /\ Cardinality(disallowed) <= 1
               /\ \A n \in disallowed :
                    calls[i].result.value[n].reference = git_ref.value

\* With the supported-ref check enabled, an input with the ref
\* this-should-fail has been given a Disallowed issue that carries it, and an
\* input with no ref has been given none.
C25_Witness ==
    /\ cli.check_supported
    /\ cli.nixpkgs_keys = <<"nixpkgs", "alt">>
    /\ Len(calls) > 0
    /\ calls[1].result.kind = "Ok"
    /\ flake_lock.value.root["nixpkgs"].git_ref = Some("this-should-fail")
    /\ ~flake_lock.value.root["alt"].git_ref.some
    /\ \E n \in IssuesOfKind(calls[1].result.value, "Disallowed", "nixpkgs") :
         calls[1].result.value[n].reference = "this-should-fail"
    /\ IssuesOfKind(calls[1].result.value, "Disallowed", "alt") = {}

\* The owners of the model that are "nixos" but for the case of their
\* letters.
NixosSpellings == { "nixos", "NixOS", "NIXOS" }

\* C26: with the owner check enabled, a selected dependency is given a
\* NonUpstream issue if and only if its owner is not "nixos" in some case of
\* the letters; the issue is the only one and carries the owner as the
\* document spells it.
C26_NonUpstreamIffOwnerNotNixos ==
    \A i \in DOMAIN calls :
      (cli.check_owner /\ calls[i].result.kind = "Ok") =>
        \A k \in Elems(cli.nixpkgs_keys) :
          LET owner == flake_lock.value.root[k].owner
              non_upstream == IssuesOfKind(calls[i].result.value, "NonUpstream", k)
          IN
          /\ non_upstream # {} <=> owner \notin NixosSpellings
          /\ Cardinality(non_upstream) <= 1
          /\ \A n \in non_upstream : calls[i].result.value[n].owner = owner

\* With the owner check enabled, an input of the owner NixOS and one of the
\* owner NIXOS have been given no NonUpstream issue.
C26_Witness ==
    /\ cli.check_owner
    /\ cli.nixpkgs_keys = <<"nixpkgs", "alt">>
    /\ Len(calls) > 0
    /\ calls[1].result.kind = "Ok"
    /\ flake_lock.value.root["nixpkgs"].owner = "NixOS"
    /\ flake_lock.value.root["alt"].owner = "NIXOS"
    /\ IssuesOfKind(calls[1].result.value, "NonUpstream", "nixpkgs") = {}
    /\ IssuesOfKind(calls[1].result.value, "NonUpstream", "alt") = {}

----------------------------------------------------------------------------
(* Properties of the expression evaluator.                                 *)

\* What the expression c is of the Repo node `node` at the time `now`,
\* read off the expression: "true", "false", or the failure it ends in.
Verdict(c, node, now) ==
    LET young == now - node.last_modified < 30 * SECONDS_PER_DAY
        truth(b) == IF b THEN "true" ELSE "false"
    IN
    CASE c = "owner == 'NixOS'" -> truth(node.owner = "NixOS")
      [] c = "supportedRefs.contains(gitRef)" ->
           truth(node.git_ref.some /\ node.git_ref.value \in ALLOWED_REFS)
      [] c = "numDaysOld < 30" -> truth(young)
      [] c = "numDaysOld" -> "int"
      [] c = "numDaysOld < 30 ? owner == 'NixOS' : gitRef" ->
           IF young THEN truth(node.owner = "NixOS") ELSE "string"
      [] c = "numDaysOld < 30 ? owner == 'NixOS' : missing" ->
           IF young THEN truth(node.owner = "NixOS") ELSE "undeclared"
      [] OTHER -> "unparsed"

\* The places of a list of issues that hold an issue about the input k.
IssuesFor(issues, k) == { n \in DOMAIN issues : issues[n].input = k }

\* C15: in expression mode, a call that returns issues returns one
\* Violation issue, tagged with its name, for each selected dependency the
\* expression is false of, none for one it is true of, and no other issue.
C15_OneViolationPerFalse ==
    \A i \in DOMAIN evals :
      evals[i].result.kind = "Ok" =>
        /\ \A n \in DOMAIN evals[i].result.value :
             /\ evals[i].result.value[n].kind = "Violation"
             /\ evals[i].result.value[n].input \in Elems(cli.nixpkgs_keys)
        /\ \A k \in Elems(cli.nixpkgs_keys) :
             LET v == Verdict(cli.condition.value, flake_lock.value.root[k],
                              evals[i].now)
             IN /\ v \in {"true", "false"}
                /\ Cardinality(IssuesFor(evals[i].result.value, k))
                     = IF v = "false" THEN 1 ELSE 0

\* The owner of nixpkgs is NixOS and the owner of alt is not: the call with
\* the expression owner == 'NixOS' has returned one issue, about alt.
C15_Witness ==
    /\ cli.condition = Some("owner == 'NixOS'")
    /\ cli.nixpkgs_keys = <<"nixpkgs", "alt">>
    /\ Len(evals) > 0
    /\ flake_lock.value.root["nixpkgs"].owner = "NixOS"
    /\ flake_lock.value.root["alt"].owner = "pretty-shady"
    /\ evals[1].result = Ok(<<Issue("alt", "Violation", "", 0, "")>>)

\* C16: in expression mode, if the expression gives no boolean for a
\* selected dependency the call returns NonBooleanCondition with the name of
\* the type it gave, and if its execution fails for one the call returns
\* that error: no issue list is returned, whatever the dependencies before
\* gave, and the dependency is not passed over.
C16_FailureAbortsRun ==
    \A i \in DOMAIN evals :
      LET failures ==
            { Verdict(cli.condition.value, flake_lock.value.root[k], evals[i].now) :
                k \in Elems(cli.nixpkgs_keys) } \ {"true", "false", "unparsed"}
      IN
      (Unselected(flake_lock.value.root, cli.nixpkgs_keys) = {}
         /\ failures # {}) =>
        /\ evals[i].result.kind = "Err"
        /\ IF "undeclared" \in failures
             THEN /\ evals[i].result.error.type = "CelExecution"
                  /\ evals[i].result.error.source
                       = [error |-> "UndeclaredReference", name |-> "missing"]
             ELSE /\ evals[i].result.error.type = "NonBooleanCondition"
                  /\ evals[i].result.error.type_name \in failures

\* The expression is false of nixpkgs, evaluated first, and gives a string
\* for alt: the call has returned NonBooleanCondition("string").
C16_Witness ==
    /\ cli.condition = Some("numDaysOld < 30 ? owner == 'NixOS' : gitRef")
    /\ cli.nixpkgs_keys = <<"nixpkgs", "alt">>
    /\ Len(evals) > 0
    /\ evals[1].order = <<"nixpkgs", "alt">>
    /\ Verdict(cli.condition.value, flake_lock.value.root["nixpkgs"],
               evals[1].now) = "false"
    /\ Verdict(cli.condition.value, flake_lock.value.root["alt"],
               evals[1].now) = "string"
    /\ evals[1].result
         = Err([type |-> "NonBooleanCondition", type_name |-> "string"])

\* C17: a call of evaluate_condition with an expression that does not
\* compile returns the compile error, for every document and every list of
\* target keys, also one for which no dependency is selected; it never
\* returns an issue list.
C17_CompileErrorAlwaysReturned ==
    \A i \in DOMAIN evals :
      cli.condition.value = "owner ==" =>
        /\ evals[i].result.kind = "Err"
        /\ evals[i].result.error.type = "CelParse"

----------------------------------------------------------------------------
(* Properties of the run.                                                  *)

\* The run found its lock file, evaluated it without error and has ended.
EndedAfterEvaluation ==
    /\ lock_exists
    /\ pc = "parsed"
    /\ exit_code # "running"
    /\ Evaluated.kind = "Ok"

\* C18 as claimed: a run whose lock file exists and whose evaluation
\* succeeded exits with FAILURE if fail_mode is set and the issue list is
\* not empty, and with SUCCESS otherwise.
C18_FailureIffFailModeAndIssues ==
    EndedAfterEvaluation =>
      exit_code = IF cli.fail_mode /\ Len(Evaluated.value) > 0
                    THEN "FAILURE" ELSE "SUCCESS"

\* C18 as amended: a run whose lock file exists, whose evaluation succeeded
\* and whose summary was generated without error exits with FAILURE if
\* fail_mode is set and the issue list is not empty, and with SUCCESS
\* otherwise; one whose summary could not be generated exits with FAILURE.
C18_FailureIffFailModeAndIssuesOrNoSummary ==
    EndedAfterEvaluation =>
      exit_code = IF report.kind # "Ok" \/ (cli.fail_mode /\ Len(Evaluated.value) > 0)
                    THEN "FAILURE" ELSE "SUCCESS"

\* A run without fail_mode has found issues, reported them and exited with
\* SUCCESS.
C18_Witness ==
    /\ EndedAfterEvaluation
    /\ ~cli.fail_mode
    /\ Len(Evaluated.value) > 0
    /\ report.kind = "Ok"
    /\ exit_code = "SUCCESS"

\* C19: a run that finds no file at the lock path parses nothing, evaluates
\* nothing and generates no summary, and the exit code it ends with is
\* SUCCESS if ignore_missing_flake_lock is set and FAILURE if it is not,
\* whatever fail_mode and the three check flags are.
C19_MissingLockEndsRun ==
    ~lock_exists =>
      /\ pc = "start"
      /\ flake_lock = NotParsed
      /\ calls = <<>>
      /\ evals = <<>>
      /\ report = NoReport
      /\ exit_code # "running" =>
           exit_code = IF cli.ignore_missing_flake_lock
                         THEN "SUCCESS" ELSE "FAILURE"

\* A run with fail_mode and the three checks set, told to ignore a missing
\* lock file, has found none and exited with SUCCESS.
C19_Witness ==
    /\ ~lock_exists
    /\ cli.ignore_missing_flake_lock
    /\ cli.fail_mode
    /\ cli.check_supported /\ cli.check_outdated /\ cli.check_owner
    /\ exit_code = "SUCCESS"

----------------------------------------------------------------------------
(* The order of the issues of the fixed-rule evaluator.                    *)

\* The place of the key k in the key list.
Position(keys, k) == CHOOSE n \in DOMAIN keys : keys[n] = k

\* C20: the issues of a call stand in the order of the target keys: every
\* issue about a key stands before every issue about a key that comes later
\* in the key list.
C20_IssuesInKeyOrder ==
    \A i \in DOMAIN calls :
      calls[i].result.kind = "Ok" =>
        \A m, n \in DOMAIN calls[i].result.value :
          m < n =>
            Position(cli.nixpkgs_keys, calls[i].result.value[m].input)
              <= Position(cli.nixpkgs_keys, calls[i].result.value[n].input)

----------------------------------------------------------------------------
(* Properties of the resolver.                                             *)

\* The error of a hop through a node without inputs.
HadNoInputs(r) ==
    /\ r.kind = "Err"
    /\ r.error.type = "Invalid"
    /\ r.error.message = "lock node should have had some inputs but had none"

\* C21: when hops remain and the current node has an `inputs` mapping, the
\* resolver takes the next hop through that mapping, for a node of every
\* variant, of the Root shape too: a chain [A, B] where the inputs of A hold
\* B never fails because A had no inputs.
C21_InputsUsedForEveryVariant ==
    pc # "start" =>
      \A A \in DOMAIN doc.nodes, B \in {"i", "j"} :
        (doc.nodes[A].inputs.json = "map" /\ B \in DOMAIN doc.nodes[A].inputs.map) =>
          LET r == chase_input_node(doc.nodes, <<A, B>>, 0) IN
          ~(HadNoInputs(r) /\ r.error.node = doc.nodes[A])

\* The node has no `inputs` mapping: the member is absent or null.
NoInputsMapping(node) == node.inputs.json \in {"absent", "null"}

\* C22: a chain that ends at a node without `inputs` mapping resolves to
\* that node, and a chain with a hop left at such a node fails with the
\* invalid-document error; a document whose one root input is such a chain
\* fails to parse with that error.
C22_NoInputsFailsOnlyWithHopsLeft ==
    pc # "start" =>
      /\ \A A \in DOMAIN doc.nodes :
           NoInputsMapping(doc.nodes[A]) =>
             /\ chase_input_node(doc.nodes, <<A>>, 0) = Ok(doc.nodes[A])
             /\ \A B \in {"i", "j"} :
                  LET r == chase_input_node(doc.nodes, <<A, B>>, 0) IN
                  HadNoInputs(r) /\ r.error.node = doc.nodes[A]
      /\ (/\ root_input_names(doc) = {"nixpkgs"}
          /\ RootInputsOf(doc)["nixpkgs"].tag = "List"
          /\ Len(RootInputsOf(doc)["nixpkgs"].keys) = 2
          /\ RootInputsOf(doc)["nixpkgs"].keys[1] \in DOMAIN doc.nodes
          /\ NoInputsMapping(doc.nodes[RootInputsOf(doc)["nixpkgs"].keys[1]])) =>
           /\ pc = "failed"
           /\ HadNoInputs(Err(flake_lock.error.source.cause))

\* The parse of a document whose root input is the chain [a, i], a a Repo
\* node with null inputs, has failed for want of inputs.
C22_Witness ==
    /\ pc = "failed"
    /\ root_input_names(doc) = {"nixpkgs"}
    /\ RootInputsOf(doc)["nixpkgs"] = InputList(<<"a", "i">>)
    /\ doc.nodes["a"].variant = "Repo"
    /\ doc.nodes["a"].inputs = JNull
    /\ HadNoInputs(Err(flake_lock.error.source.cause))

\* C29: chase_input_node is never called with an empty chain, by the loop
\* over the root inputs or by itself, also when a root input or an input of
\* a node is an empty list: `unreachable!` is never executed.
C29_ChainNeverEmpty ==
    flake_lock.kind = "Panic" => flake_lock.site # "unreachable!"

----------------------------------------------------------------------------
(* Properties of the deserialization of a node.                            *)

\* The typed variants of Node, in the order of their declaration.
Priority == <<"Root", "Repo", "Indirect", "Path", "Tarball">>

\* Whether the node object j is of the shape of the typed variant v.
Matches(v, j) ==
    CASE v = "Root" -> RootNode_ok(j)
      [] v = "Repo" -> RepoNode_ok(j)
      [] v = "Indirect" -> IndirectNode_ok(j)
      [] v = "Path" -> PathNode_ok(j)
      [] OTHER -> TarballNode_ok(j)

----------------------------------------------------------------------------
(* Properties of the variables of the expression evaluator.                *)

\* The facts a dependency has, by its variant.
HasGitRef(node) == node.variant = "Repo" /\ node.git_ref.some

HasTimestamp(node) ==
    \/ node.variant = "Repo"
    \/ node.variant = "Tarball" /\ node.tarball_last_modified.some

TimestampOf(node) ==
    IF node.variant = "Repo" THEN node.last_modified
    ELSE node.tarball_last_modified.value

HasOwner(node) == node.variant = "Repo"

VariableNames == { "gitRef", "numDaysOld", "owner", "supportedRefs" }

\* C27: in every context the expression is executed in, gitRef, numDaysOld,
\* owner and supportedRefs are bound; gitRef is "" for a dependency with no
\* git ref, numDaysOld is 0 for one with no locked timestamp and owner is ""
\* for one with no owner; and the evaluation never fails because one of the
\* four is not declared.
C27_FourVariablesBound ==
    (unit.op = "eval_deps" /\ unit.done) =>
      /\ \A n \in DOMAIN unit.out.seen :
           LET node == unit.deps[unit.out.seen[n].name]
               ctx == unit.out.seen[n].ctx
           IN
           /\ VariableNames \subseteq DOMAIN ctx
           /\ ctx["supportedRefs"] = CelList(SupportedRefs)
           /\ (~HasGitRef(node)) => (ctx["gitRef"] = CelString(""))
           /\ (~HasTimestamp(node)) => (ctx["numDaysOld"] = CelInt(0))
           /\ (~HasOwner(node)) => (ctx["owner"] = CelString(""))
      /\ ~(/\ unit.out.result.kind = "Err"
            /\ unit.out.result.error.type = "CelExecution"
            /\ unit.out.result.error.source.error = "UndeclaredReference"
            /\ unit.out.result.error.source.name \in VariableNames)

\* The expression that reads gitRef and supportedRefs has been evaluated
\* for a Tarball with no locked timestamp as the first dependency, and
\* given a value.
C27_Witness ==
    /\ unit.op = "eval_deps"
    /\ unit.done
    /\ unit.condition = "supportedRefs.contains(gitRef)"
    /\ unit.order = <<"nixpkgs">>
    /\ unit.deps["nixpkgs"] = TarballNode(None)
    /\ Len(unit.out.seen) = 1
    /\ unit.out.seen[1].ctx["gitRef"] = CelString("")
    /\ unit.out.seen[1].ctx["numDaysOld"] = CelInt(0)
    /\ unit.out.seen[1].ctx["owner"] = CelString("")
    /\ unit.out.result = Ok(<<Issue("nixpkgs", "Violation", "", 0, "")>>)

\* C28: the n-th context the expression is executed in is that of the n-th
\* dependency of the iteration, and its gitRef, numDaysOld and owner are the
\* git ref, the whole days since the locked timestamp and the owner of that
\* dependency, or "", 0 and "" for a fact it does not have, whatever the
\* dependencies before it were.
C28_OwnFactsSeen ==
    (unit.op = "eval_deps" /\ unit.done) =>
      \A n \in DOMAIN unit.out.seen :
        LET node == unit.deps[unit.order[n]]
            ctx == unit.out.seen[n].ctx
        IN
        /\ unit.out.seen[n].name = unit.order[n]
        /\ ctx["gitRef"] = CelString(IF HasGitRef(node)
                                       THEN node.git_ref.value ELSE "")
        /\ ctx["numDaysOld"].type = "int"
        /\ IF HasTimestamp(node)
             THEN IsTruncatedDays(ctx["numDaysOld"].n,
                                  unit.now - TimestampOf(node))
             ELSE ctx["numDaysOld"].n = 0
        /\ ctx["owner"] = CelString(IF HasOwner(node) THEN node.owner ELSE "")

\* The expression has been executed for a Repo node with a git ref, a
\* timestamp and an owner, then for a Path node, then for a Repo node with
\* no git ref.
C28_Witness ==
    /\ unit.op = "eval_deps"
    /\ unit.done
    /\ Len(unit.order) = 3
    /\ Len(unit.out.seen) = 3
    /\ unit.deps[unit.order[1]].variant = "Repo"
    /\ unit.deps[unit.order[1]].git_ref = Some("nixos-unstable")
    /\ unit.deps[unit.order[2]].variant = "Path"
    /\ unit.deps[unit.order[3]].variant = "Repo"
    /\ unit.deps[unit.order[3]].git_ref = None
    /\ unit.out.seen[2].ctx["owner"] = CelString("")
    /\ unit.out.seen[3].ctx["gitRef"] = CelString("")
    /\ unit.out.seen[3].ctx["owner"] = CelString("bitcoin-miner-org")

====
